---- MODULE Spec2Model ----
(***************************************************************************)
(* A model of FhirClient (src/FhirClient.py): the token state read by      *)
(* every header construction, the bulk kick-off operations and the         *)
(* polling loop of poll().                                                 *)
(*                                                                         *)
(* One client instance runs one public call at a time (the class has no    *)
(* internal concurrency).  pc is the position of that call:                *)
(*   "idle"   no call in progress                                          *)
(*   "get"    poll() is at line 439, about to issue its GET                *)
(*   "sleep"  poll() is at line 465, about to clamp and sleep              *)
(*   "done"   the call returned (result holds the value)                   *)
(*   "failed" the call raised (error names the exception)                  *)
(*                                                                         *)
(* The server is the environment.  Its responses are drawn from small sets *)
(* whose header values follow the grammar of the protocol: a Retry-After   *)
(* is delay-seconds (decimal digits) or an HTTP-date, a 202 kick-off       *)
(* carries Content-Location, and a body that is decoded is a JSON text.    *)
(* Time is counted in whole seconds since the epoch; the only sub-second   *)
(* reading the model keeps is the microsecond field of the clock read at   *)
(* line 461.  Time passes in time.sleep() only.                            *)
(***************************************************************************)
EXTENDS Integers, Sequences, FiniteSets, TLC

VARIABLES
    token,                 \* self.token
    token_expires_at,      \* self.token_expires_at
    refresh_token,         \* self.refresh_token: which hook is installed
    auth_type,             \* self.auth_type
    extra_headers,         \* self.extra_headers
    now,                   \* the clock, in seconds
    pc,                    \* position of the call in progress
    frame,                 \* the method the call is in, or was in when it ended
    poll_url,              \* poll(): parameter poll_url
    default_polling_time,  \* poll(): parameter default_polling_time
    error_count,           \* poll(): local error_count
    seconds,               \* poll(): local seconds
    response,              \* the response most recently received
    read_us,               \* microsecond field of the clock read at line 461
    result,                \* <<v>> once the call returned v; << >> before, and
                           \* when it returned None
    error,                 \* the exception the call raised, "" if none
    hdr,                   \* the most recent header construction
    gets,                  \* number of poll GETs issued
    last_get,              \* URL of the most recent poll GET
    sleeps,                \* number of completed time.sleep() calls
    slept,                 \* <<d>>: duration of the most recent sleep
    nonok_run,             \* length of the current run of non-ok poll responses
    nonok_maxrun,          \* longest run of consecutive non-ok poll responses
    plan,                  \* what the server is going to answer
    sent,                  \* the requests of the call, poll()'s GETs left out
    error_log,             \* <<b>>: content most recently given to logging.error
    arg,                   \* the argument the call was made with
    file_list              \* save_output(): local file_list

vars == <<token, token_expires_at, refresh_token, auth_type, extra_headers, now,
          pc, frame, poll_url, default_polling_time, error_count, seconds,
          response, read_us, result, error, hdr, gets, last_get, sleeps, slept,
          nonok_run, nonok_maxrun, plan, sent, error_log, arg, file_list>>

clientVars == <<refresh_token, auth_type, extra_headers>>

callVars == <<sent, error_log, arg, file_list>>

-----------------------------------------------------------------------------
(* Bounds of the model *)

\* poll() issues at most this many GETs in one behaviour
MaxPolls == 5

\* lifetime, in seconds, of a token installed by the rotating refresh hook
TokenTTL == 1

\* a Bundle given to search_next() has at most this many links
MaxLinks == 2

\* a manifest given to save_output() has at most this many output entries
MaxOutputs == 2

(* Program constants *)

\* poll(): "if error_count < 3"
ErrorTolerance == 3

\* poll(..., default_polling_time: int = 120)
DefaultPollingTime == 120

\* datetime.timedelta keeps 0 <= seconds < 86400 beside its days
SecondsPerDay == 86400

\* response.status_code == 202
Accepted == 202

\* response.status_code == 200
StatusOk == 200

\* requests: Response.ok is False from status 400 on
FirstErrorStatus == 400

\* self.token_expires_at is None
NoExpiry == -1

\* the clock when the client was constructed (10 days and 100 s after the epoch)
Epoch0 == 864100

-----------------------------------------------------------------------------
(* Values *)

None == "<None>"

Min(a, b) == IF a < b THEN a ELSE b

Max(a, b) == IF a > b THEN a ELSE b

\* A header that the response does not carry
Absent == [kind |-> "absent", digits |-> << >>, day |-> 0, sec |-> 0]

\* Retry-After: delay-seconds, the decimal digits as sent
Delay(ds) == [kind |-> "delay", digits |-> ds, day |-> 0, sec |-> 0]

\* Retry-After: HTTP-date, "%a, %d %b %Y" as a day number and "%H:%M:%S" as
\* the second of that day, for the instant e (seconds since the epoch)
HttpDate(e) == [kind |-> "date", digits |-> << >>,
                day |-> e \div SecondsPerDay, sec |-> e % SecondsPerDay]

\* str.isnumeric() on a Retry-After value
IsNumeric(ra) == ra.kind = "delay"

\* int(retry_after) on a string of decimal digits
RECURSIVE IntOf(_)
IntOf(ds) == IF ds = << >> THEN 0
             ELSE 10 * IntOf(SubSeq(ds, 1, Len(ds) - 1)) + ds[Len(ds)]

\* datetime.strptime(retry_after, '%a, %d %b %Y %H:%M:%S %Z').replace(tzinfo=utc)
Strptime(ra) == ra.day * SecondsPerDay + ra.sec

\* the whole timedelta in seconds, as total_seconds() gives it
TimedeltaSeconds_Total(wait_until, t, us) ==
    (wait_until - t) - (IF us > 0 THEN 1 ELSE 0)

\* (wait_until - datetime.now(timezone.utc)).seconds, the clock reading t seconds
\* and us microseconds: the timedelta is normalised to days, 0 <= seconds <
\* 86400 and 0 <= microseconds < 10^6, and .seconds is its seconds field
TimedeltaSeconds(wait_until, t, us) ==
    LET borrow == IF us > 0 THEN 1 ELSE 0
    IN  ((wait_until - t) - borrow) % SecondsPerDay

\* poll() lines 452-461: the wait a Retry-After header asks for
RetryAfterSeconds(ra, t, us) ==
    IF IsNumeric(ra) THEN IntOf(ra.digits)
    ELSE TimedeltaSeconds(Strptime(ra), t, us)

\* the ok test letting a response with Retry-After through
ResponseOk_OrRetryAfter(r) ==
    r.status < FirstErrorStatus \/ r.retry_after.kind # "absent"

\* Response.ok
ResponseOk(r) == r.status < FirstErrorStatus

\* response.json() for a body that is a JSON text: the manifest's output
\* entries, the text being the word "output" and then type, url, type, url ...
RECURSIVE Entries(_)
Entries(txt) == IF Len(txt) < 2 THEN << >>
                ELSE <<[type |-> txt[1], url |-> txt[2]]>> \o Entries(SubSeq(txt, 3, Len(txt)))

\* response.json() for a body that is the text of a flat JSON object: name,
\* value, name, value ...
RECURSIVE Members(_)
Members(txt) == IF Len(txt) < 2 THEN << >>
                ELSE (txt[1] :> txt[2]) @@ Members(SubSeq(txt, 3, Len(txt)))

Json(body) == IF Head(body) = "output"
              THEN [output |-> Entries(Tail(body))]
              ELSE Members(body)

-----------------------------------------------------------------------------
(* Token state and header construction *)

APPLICATION_JSON_FHIR == "application/fhir+json"

\* the token the rotating hook installs after tok
Rotate(tok) == IF tok = "t1" THEN "t2" ELSE "t1"

\* self.refresh_token(): the default hook (lambda: '') changes nothing; a
\* rotating hook installs a fresh token that lives TokenTTL seconds
RefreshToken(ts, t) ==
    IF refresh_token = "rotate"
    THEN [token |-> Rotate(ts.token), expires_at |-> t + TokenTTL]
    ELSE ts

\* __get_token, line 39: the condition under which the hook is called
TokenExpired(ts, t) == ts.expires_at # NoExpiry /\ t > ts.expires_at

\* the token read before the hook is called
GetToken_Stale(ts, t) ==
    LET after == IF TokenExpired(ts, t) THEN RefreshToken(ts, t) ELSE ts
    IN  [ts |-> after, refreshed |-> TokenExpired(ts, t), token |-> ts.token]

\* __get_token: the token state it leaves and the token it returns
GetToken(ts, t) ==
    LET after == IF TokenExpired(ts, t) THEN RefreshToken(ts, t) ELSE ts
    IN  [ts |-> after, refreshed |-> TokenExpired(ts, t), token |-> after.token]

\* __headers: the headers of a request built at time t from token state ts,
\* with the token state it leaves
Headers(ts, t) ==
    LET g    == GetToken(ts, t)
        base == ("Accept" :> <<APPLICATION_JSON_FHIR>>) @@
                ("Content-Type" :> <<APPLICATION_JSON_FHIR, "charset=UTF-8">>)
        auth == IF g.token # None /\ auth_type # None
                THEN ("Authorization" :> <<auth_type, g.token>>) @@ base
                ELSE base
    IN  [ts |-> g.ts, refreshed |-> g.refreshed, headers |-> extra_headers @@ auth]

\* __async_headers
AsyncHeaders(ts, t) ==
    LET h == Headers(ts, t)
    IN  [h EXCEPT !.headers = h.headers @@ ("Prefer" :> <<"respond-async">>)]

TokenState == [token |-> token, expires_at |-> token_expires_at]

\* the request goes out with the headers h, built at this moment from the
\* token state ts
Sent(ts, h) ==
    /\ token' = h.ts.token
    /\ token_expires_at' = h.ts.expires_at
    /\ hdr' = [built |-> TRUE, at |-> now, expires_before |-> ts.expires_at,
               refreshed |-> h.refreshed, headers |-> h.headers]

-----------------------------------------------------------------------------
(* The server *)

Urls == {"https://host/poll/1", "https://host/poll/2"}

\* bodies that are JSON texts: a manifest without and with an output entry
JsonBodies == {<<"output">>, <<"output", "Patient", "https://host/files/p1.ndjson">>}

\* delay-seconds values a server sends
Delays == {<<1>>, <<1, 2, 1>>}

\* how far from the current second the instant of an HTTP-date lies
DateOffsets == {-1, 2, SecondsPerDay + 1}

\* microsecond readings of the clock
Micros == {0, 500000}

Resp(st, ra, cl, body) ==
    [status |-> st, retry_after |-> ra, content_location |-> cl, body |-> body]

NoResponse == Resp(0, Absent, "", << >>)

\* what the status endpoint may answer at time t
PollResponses(t) ==
    {Resp(500, ra, "", <<"error">>) : ra \in {Absent, Delay(<<1>>)}}
    \cup {Resp(StatusOk, Absent, "", b) : b \in JsonBodies}
    \cup {Resp(StatusOk, Delay(<<1>>), "", <<"output">>)}
    \cup {Resp(Accepted, ra, "", << >>) :
            ra \in {Absent} \cup {Delay(ds) : ds \in Delays}
                   \cup {HttpDate(t + off) : off \in DateOffsets}}
    \cup {Resp(204, ra, "", << >>) : ra \in {Absent, Delay(<<1>>)}}

\* what a kick-off request may be answered
KickoffResponses ==
    {Resp(Accepted, Absent, u, << >>) : u \in Urls}
    \cup {Resp(st, Absent, "", b) : st \in {StatusOk, 201}, b \in JsonBodies}
    \cup {Resp(500, Absent, "", <<"error">>)}

\* the server's plan for the status endpoint: "free" answers anything;
\* "ok_at" answers 200 to GET number k; "fail_from" answers non-ok from GET
\* number k on; "never" answers 202 to every GET
ServerAllows(r, n) ==
    CASE plan.kind = "ok_at"     -> (n = plan.k => r.status = StatusOk)
      [] plan.kind = "fail_from" -> (n >= plan.k => ~ResponseOk(r))
      [] plan.kind = "never"     -> r.status = Accepted
      [] OTHER                   -> TRUE

-----------------------------------------------------------------------------
(* poll() *)

\* values of default_polling_time the callers pass
Defaults == {0, 2, DefaultPollingTime}

\* the tolerance test with the bound included
Tolerated_Inclusive(ec) == ec <= ErrorTolerance

\* the tolerance test never giving up
Tolerated_Always(ec) == ec >= 0

\* the tolerance test made on the counter as it will be after the increment
Tolerated_AfterIncrement(ec) == ec + 1 < ErrorTolerance

\* line 442: a non-ok response is tolerated while
Tolerated(ec) == ec < ErrorTolerance

\* the success test giving way to a Retry-After header
Succeeded_UnlessRetryAfter(r) ==
    r.status = StatusOk /\ r.retry_after.kind = "absent"

\* line 447
Succeeded(r) == r.status = StatusOk

\* the Retry-After test made on 202 responses only
HasRetryAfter_On202(r) == r.retry_after.kind # "absent" /\ r.status = Accepted

\* line 449
HasRetryAfter(r) == r.retry_after.kind # "absent"

\* the invalid-response test letting every 2xx status through
NotAccepted_Not2xx(r) == r.status \notin 200..299

\* line 462
NotAccepted(r) == r.status # Accepted

\* the handling of one response with a bare 202 going back to the default wait
PollBody_ResetOnBare(r, ec, secs, dpt, t, us) ==
    LET stay == [at |-> "sleep", error_count |-> ec, seconds |-> secs,
                 result |-> << >>, error |-> ""]
    IN  IF ~(r.status < FirstErrorStatus)
        THEN IF ec < ErrorTolerance
             THEN [stay EXCEPT !.error_count = ec + 1, !.seconds = dpt]
             ELSE [stay EXCEPT !.at = "failed", !.error = "HTTPError"]
        ELSE IF r.status = StatusOk
        THEN [stay EXCEPT !.at = "done", !.result = <<Json(r.body)>>]
        ELSE IF r.retry_after.kind # "absent"
        THEN [stay EXCEPT !.seconds = RetryAfterSeconds(r.retry_after, t, us)]
        ELSE IF r.status # Accepted
        THEN [stay EXCEPT !.at = "failed", !.error = "Invalid poll response"]
        ELSE [stay EXCEPT !.seconds = dpt]

\* lines 440-464: what one response does to poll(), the locals being ec and
\* secs, the clock reading t seconds and us microseconds.  at is where poll()
\* goes: on to the sleep of line 467, out by return, or out by raise.
PollBody(r, ec, secs, dpt, t, us) ==
    LET stay == [at |-> "sleep", error_count |-> ec, seconds |-> secs,
                 result |-> << >>, error |-> ""]
    IN  IF ~ResponseOk(r)
        THEN IF Tolerated(ec)
             THEN [stay EXCEPT !.error_count = ec + 1, !.seconds = dpt]
             ELSE [stay EXCEPT !.at = "failed", !.error = "HTTPError"]
        ELSE IF Succeeded(r)
        THEN [stay EXCEPT !.at = "done", !.result = <<Json(r.body)>>]
        ELSE IF HasRetryAfter(r)
        THEN [stay EXCEPT !.seconds = RetryAfterSeconds(r.retry_after, t, us)]
        ELSE IF NotAccepted(r)
        THEN [stay EXCEPT !.at = "failed", !.error = "Invalid poll response"]
        ELSE stay

\* the wait passed on without the ceiling
Clamp_Unclamped(secs, dpt) == secs

\* line 465
Clamp(secs, dpt) == Min(secs, dpt)

\* does line 461 read the clock for this response
ReadsClock(r) ==
    ResponseOk(r) /\ ~Succeeded(r) /\ HasRetryAfter(r) /\ ~IsNumeric(r.retry_after)

\* poll() entered at its sleep, the loop waiting before it asks
PollEntered_SleepFirst(url, dpt) ==
    /\ poll_url' = url
    /\ default_polling_time' = dpt
    /\ error_count' = 0
    /\ seconds' = dpt
    /\ frame' = "poll"
    /\ pc' = "sleep"

\* lines 435-436: poll() is entered
PollEntered(url, dpt) ==
    /\ poll_url' = url
    /\ default_polling_time' = dpt
    /\ error_count' = 0
    /\ seconds' = dpt
    /\ frame' = "poll"
    /\ pc' = "get"

\* lines 439-464: one GET of the status URL and the handling of its response
PollGet ==
    /\ pc = "get"
    /\ gets < MaxPolls
    /\ \E r \in PollResponses(now), us \in Micros :
          LET b == PollBody(r, error_count, seconds, default_polling_time, now, us)
          IN  /\ ServerAllows(r, gets + 1)
              /\ Sent(TokenState, Headers(TokenState, now))
              /\ response' = r
              /\ read_us' = IF ReadsClock(r) THEN us ELSE read_us
              /\ gets' = gets + 1
              /\ last_get' = poll_url
              /\ nonok_run' = IF ResponseOk(r) THEN 0 ELSE nonok_run + 1
              /\ nonok_maxrun' = Max(nonok_maxrun, nonok_run')
              /\ pc' = b.at
              /\ error_count' = b.error_count
              /\ seconds' = b.seconds
              /\ result' = b.result
              /\ error' = b.error
    /\ UNCHANGED <<clientVars, now, frame, poll_url, default_polling_time,
                   sleeps, slept, plan, callVars>>

\* lines 465-467: clamp the wait and sleep
PollSleep ==
    /\ pc = "sleep"
    /\ seconds' = Clamp(seconds, default_polling_time)
    /\ slept' = <<seconds'>>
    /\ sleeps' = sleeps + 1
    /\ now' = now + seconds'
    /\ pc' = "get"
    /\ UNCHANGED <<clientVars, token, token_expires_at, frame, poll_url,
                   default_polling_time, error_count, response, read_us, result,
                   error, hdr, gets, last_get, nonok_run, nonok_maxrun, plan,
                   callVars>>

\* poll(poll_url, default_polling_time) called by the user
Poll ==
    /\ pc = "idle"
    /\ \E url \in Urls, dpt \in Defaults : PollEntered(url, dpt)
    /\ UNCHANGED <<clientVars, token, token_expires_at, now, response, read_us,
                   result, error, hdr, gets, last_get, sleeps, slept, nonok_run,
                   nonok_maxrun, plan, callVars>>

-----------------------------------------------------------------------------
(* Bulk kick-off *)

\* lines 84-85 and 135-136: what logging.error is given of a failed response
Content(r) == IF r.body # << >> THEN <<r.body>> ELSE << >>

\* the kick-off test taking every ok status
JobStarted_AnyOk(r) == ResponseOk(r)

\* lines 376, 399, 428: the kick-off response starts a job
JobStarted(r) == r.status = Accepted

\* __async_operation and the lines after it in bulk_patient_export,
\* bulk_group_export and bulk_patient_match: the request goes out with the
\* async headers; a non-ok response raises, a 202 enters poll() on its
\* Content-Location, any other response is decoded and returned
Kickoff(dpt) ==
    /\ pc = "idle"
    /\ \E r \in KickoffResponses :
          /\ Sent(TokenState, AsyncHeaders(TokenState, now))
          /\ response' = r
          /\ IF ~ResponseOk(r)
             THEN /\ pc' = "failed"
                  /\ frame' = "__async_operation"
                  /\ error' = "HTTPError"
                  /\ error_log' = Content(r)
                  /\ UNCHANGED <<result, poll_url, default_polling_time,
                                 error_count, seconds>>
             ELSE IF JobStarted(r)
             THEN /\ PollEntered(r.content_location, dpt)
                  /\ UNCHANGED <<result, error, error_log>>
             ELSE /\ pc' = "done"
                  /\ frame' = "bulk"
                  /\ result' = <<Json(r.body)>>
                  /\ UNCHANGED <<error, error_log, poll_url, default_polling_time,
                                 error_count, seconds>>
    /\ UNCHANGED <<clientVars, now, read_us, gets, last_get, sleeps, slept,
                   nonok_run, nonok_maxrun, plan, sent, arg, file_list>>

\* what a synchronous request may be answered
OperationResponses ==
    {Resp(StatusOk, Absent, "", b) : b \in JsonBodies \cup {<< >>}}
    \cup {Resp(201, Absent, "", << >>)}
    \cup {Resp(500, Absent, "", b) : b \in {<< >>, <<"error">>}}

\* the URLs __operation is given by the resource operations
OperationUrls == {"https://host/fhir/Patient", "https://host/fhir/Patient/1"}

\* the data __operation is given: None, or a serialised body
OperationData == {<< >>, <<[resourceType |-> "Patient"]>>}

\* lines 68-71: GET without data, POST with
Request(url, data) ==
    [method |-> IF data = << >> THEN "GET" ELSE "POST", url |-> url, data |-> data]

\* the handling of a response that returns on a non-ok response too
OperationOutcome_NoRaise(r) ==
    [at |-> "done",
     result |-> IF r.body # << >> THEN <<Json(r.body)>> ELSE << << >> >>,
     error |-> "",
     error_log |-> << >>]

\* lines 78-86: an ok response returns its decoded body, or {} when it has
\* none; a non-ok response has its content logged, if any, and raises
OperationOutcome(r) ==
    IF ResponseOk(r)
    THEN [at |-> "done",
          result |-> IF r.body # << >> THEN <<Json(r.body)>> ELSE << << >> >>,
          error |-> "",
          error_log |-> << >>]
    ELSE [at |-> "failed",
          result |-> << >>,
          error |-> "HTTPError",
          error_log |-> Content(r)]

\* __operation(url, data=data) called in method fr: the headers are built for
\* the debug log (line 75) and again for the request (line 77)
OperationCall(fr, url, data) ==
    /\ pc = "idle"
    /\ frame' = fr
    /\ \E r \in OperationResponses :
          LET debug == Headers(TokenState, now)
              o == OperationOutcome(r)
          IN  /\ Sent(debug.ts, Headers(debug.ts, now))
              /\ sent' = <<Request(url, data)>>
              /\ response' = r
              /\ pc' = o.at
              /\ result' = o.result
              /\ error' = o.error
              /\ error_log' = o.error_log
    /\ UNCHANGED <<clientVars, now, poll_url, default_polling_time, error_count,
                   seconds, read_us, gets, last_get, sleeps, slept, nonok_run,
                   nonok_maxrun, plan>>

\* __operation, as read, search, create and the other resource operations
\* reach it
Operation ==
    /\ \E url \in OperationUrls, data \in OperationData :
          OperationCall("__operation", url, data)
    /\ UNCHANGED <<arg, file_list>>

-----------------------------------------------------------------------------
(* Paging *)

\* the links a Bundle carries
LinkItems ==
    {[relation |-> "self", url |-> "https://host/fhir/Patient?_page=1"],
     [relation |-> "next", url |-> "https://host/fhir/Patient?_page=2"],
     [relation |-> "next", url |-> "https://host/fhir/Patient?_page=3"]}

\* the link lists of at most n links
RECURSIVE Links(_)
Links(n) == IF n = 0 THEN {<< >>}
            ELSE Links(n - 1) \cup
                 {Append(l, i) : l \in {k \in Links(n - 1) : Len(k) = n - 1},
                                 i \in LinkItems}

\* what search_next() is given: Bundles with their links, a Bundle without
\* the link member, and results that are no Bundle
SearchResults ==
    {[resourceType |-> "Bundle", link |-> l] : l \in Links(MaxLinks)}
    \cup {[resourceType |-> "Bundle"],
          [resourceType |-> "OperationOutcome", link |-> <<>>],
          [link |-> <<[relation |-> "next", url |-> "https://host/fhir/Patient?_page=2"]>>]}

\* line 276
IsBundleWithLink(search_results) ==
    /\ "resourceType" \in DOMAIN search_results
    /\ search_results["resourceType"] = "Bundle"
    /\ "link" \in DOMAIN search_results

\* line 278: [item['url'] for item in link if item['relation'] == 'next']
RECURSIVE NextUrls(_)
NextUrls(link) ==
    IF link = << >> THEN << >>
    ELSE (IF Head(link).relation = "next" THEN <<Head(link).url>> ELSE << >>)
         \o NextUrls(Tail(link))

\* the test following the first of several next links
HasOneNext_OrMore(next_urls) == Len(next_urls) >= 1

\* line 279
HasOneNext(next_urls) == Len(next_urls) = 1

\* search_next(search_results): the next page is asked for through
\* __operation when the result is a Bundle with exactly one next link;
\* otherwise None is returned
SearchNext ==
    /\ pc = "idle"
    /\ \E search_results \in SearchResults :
          /\ arg' = search_results
          /\ IF /\ IsBundleWithLink(search_results)
                /\ HasOneNext(NextUrls(search_results["link"]))
             THEN OperationCall("search_next", NextUrls(search_results["link"])[1], << >>)
             ELSE /\ frame' = "search_next"
                  /\ pc' = "done"
                  /\ result' = << >>
                  /\ UNCHANGED <<clientVars, token, token_expires_at, hdr, now,
                                 poll_url, default_polling_time, error_count,
                                 seconds, response, read_us, error, gets,
                                 last_get, sleeps, slept, nonok_run,
                                 nonok_maxrun, plan, sent, error_log>>
    /\ UNCHANGED file_list

-----------------------------------------------------------------------------
(* Validation *)

\* the mode and profile arguments of validate()
Modes == {None, "", "create"}
Profiles == {None, "", "http://host/fhir/StructureDefinition/p"}

\* lines 291 and 297: x is not None and len(x) > 0
Given(x) == x # None /\ x # ""

\* lines 284-295: the parameter list before the profile is looked at
ParameterList(resource, mode) ==
    <<[name |-> "resource", resource |-> resource]>>
    \o (IF Given(mode) THEN <<[name |-> "mode", valueCode |-> mode]>> ELSE << >>)

\* lines 305-313: the Parameters resource posted, its id the clock reading
ParametersBody(parameter, t) ==
    [resourceType |-> "Parameters", id |-> t, parameter |-> parameter]

\* validate(resource_type, resource, mode, profile): with a profile given,
\* line 298 evaluates a set display whose element is a dict, which raises
\* TypeError (a dict is not hashable) before anything is appended or sent;
\* without one, the Parameters resource is posted to $validate
Validate ==
    /\ pc = "idle"
    /\ \E resource_type \in {"Patient"}, mode \in Modes, profile \in Profiles :
          LET resource == [resourceType |-> resource_type]
              parameter == ParameterList(resource, mode)
          IN  /\ arg' = [resource_type |-> resource_type, resource |-> resource,
                         mode |-> mode, profile |-> profile]
              /\ IF Given(profile)
                 THEN /\ frame' = "validate"
                      /\ pc' = "failed"
                      /\ error' = "TypeError"
                      /\ UNCHANGED <<clientVars, token, token_expires_at, hdr,
                                     now, poll_url, default_polling_time,
                                     error_count, seconds, response, read_us,
                                     result, gets, last_get, sleeps, slept,
                                     nonok_run, nonok_maxrun, plan, sent,
                                     error_log>>
                 ELSE OperationCall("validate",
                                    "https://host/fhir/Patient/$validate",
                                    <<ParametersBody(parameter, now)>>)
    /\ UNCHANGED file_list

-----------------------------------------------------------------------------
(* Download of the output files *)

\* the output entries of a manifest, a URL being the sequence of the pieces
\* its slashes separate
OutputEntries ==
    {[type |-> "Patient", url |-> <<"https:", "", "host", "files", "p1.ndjson">>],
     [type |-> "Observation", url |-> <<"https:", "", "host", "files", "o1.ndjson">>]}

\* the output lists of at most n entries
RECURSIVE Outputs(_)
Outputs(n) == IF n = 0 THEN {<< >>}
              ELSE Outputs(n - 1) \cup
                   {Append(l, e) : l \in {k \in Outputs(n - 1) : Len(k) = n - 1},
                                   e \in OutputEntries}

\* what the request for a file may be answered
FileResponses ==
    {Resp(StatusOk, Absent, "", <<"ndjson">>), Resp(404, Absent, "", <<"error">>)}

\* line 484: url.split('/')[-1]
FileName(url) == url[Len(url)]

\* the status test raising for server errors only
FetchFailed_ServerError(r) == r.status >= 500

\* line 482: response.raise_for_status() raises
FetchFailed(r) == ~ResponseOk(r)

\* lines 473-475: save_output(output) is entered and the loop started; with
\* no entry to fetch the empty list is returned
SaveOutput ==
    /\ pc = "idle"
    /\ frame' = "save_output"
    /\ \E output \in Outputs(MaxOutputs) :
          /\ arg' = [output |-> output]
          /\ file_list' = << >>
          /\ IF output = << >>
             THEN pc' = "done" /\ result' = << << >> >>
             ELSE pc' = "fetch" /\ result' = << >>
    /\ UNCHANGED <<clientVars, token, token_expires_at, hdr, now, poll_url,
                   default_polling_time, error_count, seconds, response,
                   read_us, error, gets, last_get, sleeps, slept, nonok_run,
                   nonok_maxrun, plan, sent, error_log>>

\* lines 475-490: one pass of the loop, the entry being the one after those
\* whose files are in file_list: the file is asked for with the headers of
\* __headers; a non-ok response raises; otherwise the file is written under
\* the last piece of the URL and its name appended; after the last entry the
\* list is returned
FetchOutput ==
    /\ pc = "fetch"
    /\ LET entry == arg["output"][Len(file_list) + 1]
           url == entry.url
       IN  \E r \in FileResponses :
             /\ Sent(TokenState, Headers(TokenState, now))
             /\ sent' = Append(sent, Request(url, << >>))
             /\ response' = r
             /\ IF FetchFailed(r)
                THEN /\ pc' = "failed"
                     /\ error' = "HTTPError"
                     /\ UNCHANGED <<file_list, result>>
                ELSE /\ file_list' = Append(file_list, FileName(url))
                     /\ error' = ""
                     /\ IF Len(file_list') = Len(arg["output"])
                        THEN pc' = "done" /\ result' = <<file_list'>>
                        ELSE pc' = "fetch" /\ result' = << >>
    /\ UNCHANGED <<clientVars, now, frame, poll_url, default_polling_time,
                   error_count, seconds, read_us, gets, last_get, sleeps, slept,
                   nonok_run, nonok_maxrun, plan, error_log, arg>>

-----------------------------------------------------------------------------
(* Token exchange *)

\* line 178: where the SMART configuration is read
WellKnown == "https://host/fhir/.well-known/smart-configuration"

\* line 195: lifetime of the client assertion, timedelta(hours=1) in seconds
JwtLifetime == 3600

\* what the SMART configuration request may be answered
SmartConfigResponses ==
    {Resp(StatusOk, Absent, "", <<"token_endpoint", "https://host/token">>),
     Resp(500, Absent, "", <<"error">>)}

\* what the token endpoint may answer: a token, or an OAuth error
TokenResponses ==
    {Resp(StatusOk, Absent, "", <<"access_token", "t2", "expires_in", "300">>),
     Resp(400, Absent, "", <<"error", "invalid_client">>),
     Resp(401, Absent, "", <<"error", "invalid_client">>)}

\* lines 190-203: the signed assertion, by its claims and header
ClientAssertion(client_id, key_id, token_endpoint, t) ==
    [iss |-> client_id, sub |-> client_id, aud |-> token_endpoint,
     exp |-> t + JwtLifetime, kid |-> key_id]

\* lines 205-214: the request to the token endpoint
TokenRequest(token_endpoint, assertion) ==
    [method |-> "POST", url |-> token_endpoint, data |-> << >>,
     params |-> [grant_type |-> "client_credentials",
                 client_assertion |-> assertion]]

\* oauth(client_id, key_id, key): get_smart_configuration raises on a non-ok
\* response (lines 179-184); the response of the token endpoint is decoded
\* and returned whatever its status (line 214); neither request takes the
\* headers of __headers
Oauth ==
    /\ pc = "idle"
    /\ frame' = "oauth"
    /\ \E client_id \in {"app"}, key_id \in {"k1"}, sc \in SmartConfigResponses :
          IF ~ResponseOk(sc)
          THEN /\ sent' = <<Request(WellKnown, << >>)>>
               /\ response' = sc
               /\ error_log' = Content(sc)
               /\ pc' = "failed"
               /\ error' = "HTTPError"
               /\ result' = << >>
          ELSE \E tr \in TokenResponses :
                 LET token_endpoint == Json(sc.body)["token_endpoint"]
                     encoded_jwt == ClientAssertion(client_id, key_id, token_endpoint, now)
                 IN  /\ sent' = <<Request(WellKnown, << >>),
                                  TokenRequest(token_endpoint, encoded_jwt)>>
                     /\ response' = tr
                     /\ error_log' = << >>
                     /\ pc' = "done"
                     /\ error' = ""
                     /\ result' = <<Json(tr.body)>>
    /\ UNCHANGED <<clientVars, token, token_expires_at, hdr, now, poll_url,
                   default_polling_time, error_count, seconds, read_us, gets,
                   last_get, sleeps, slept, nonok_run, nonok_maxrun, plan, arg,
                   file_list>>

-----------------------------------------------------------------------------
(* Bulk methods *)

\* bulk_patient_export(default_polling_time=dpt)
BulkPatientExport == \E dpt \in Defaults : Kickoff(dpt)

\* bulk_group_export: poll(content_location) runs with poll()'s own default
BulkGroupExport == Kickoff(DefaultPollingTime)

\* bulk_patient_match(default_polling_time=dpt)
BulkPatientMatch == \E dpt \in Defaults : Kickoff(dpt)

-----------------------------------------------------------------------------
(* Specifications *)

NoHeaders == [built |-> FALSE, at |-> 0, expires_before |-> NoExpiry,
              refreshed |-> FALSE, headers |-> << >>]

FreePlan == [kind |-> "free", k |-> 0]

\* the call state of a client on which no method has been called
Fresh ==
    /\ pc = "idle"
    /\ frame = ""
    /\ poll_url = ""
    /\ default_polling_time = 0
    /\ error_count = 0
    /\ seconds = 0
    /\ response = NoResponse
    /\ read_us = 0
    /\ result = << >>
    /\ error = ""
    /\ hdr = NoHeaders
    /\ gets = 0
    /\ last_get = ""
    /\ sleeps = 0
    /\ slept = << >>
    /\ nonok_run = 0
    /\ nonok_maxrun = 0
    /\ sent = << >>
    /\ error_log = << >>
    /\ arg = << >>
    /\ file_list = << >>

\* __init__(base_url, token, auth_type, verify_ssl, extra_headers): the
\* constructor's arguments, the clock at construction (Epoch0) stored in
\* token_expires_at, and the default hook
Constructed ==
    /\ \/ token = "t1" /\ auth_type = "Bearer" /\ extra_headers = << >>
       \/ token = None /\ auth_type = None /\ extra_headers = << >>
       \/ token = "t1" /\ auth_type = "Bearer"
             /\ extra_headers = ("X-Tenant" :> <<"a">>)
    /\ token_expires_at = Epoch0
    /\ refresh_token = "noop"

\* a client just constructed, the clock one second later
Init ==
    /\ now = Epoch0 + 1
    /\ Constructed
    /\ plan = FreePlan
    /\ Fresh

Next ==
    \/ Poll
    \/ BulkPatientExport
    \/ BulkGroupExport
    \/ BulkPatientMatch
    \/ Operation
    \/ Oauth
    \/ SearchNext
    \/ Validate
    \/ SaveOutput
    \/ FetchOutput
    \/ PollGet
    \/ PollSleep

Spec == Init /\ [][Next]_vars

\* the plans of a server for the status endpoint: a 200 at GET number k, non-ok
\* from GET number k on (early enough for the tolerance to run out within
\* MaxPolls GETs), or 202 for ever
Plans ==
    {[kind |-> "ok_at", k |-> k] : k \in 1..MaxPolls}
    \cup {[kind |-> "fail_from", k |-> k] : k \in 1..(MaxPolls - ErrorTolerance)}
    \cup {[kind |-> "never", k |-> 0]}

\* a client just constructed, facing a server with a plan
InitPlanned ==
    /\ now = Epoch0 + 1
    /\ token = "t1" /\ auth_type = "Bearer" /\ extra_headers = << >>
    /\ token_expires_at = Epoch0
    /\ refresh_token = "noop"
    /\ plan \in Plans
    /\ Fresh

\* poll() runs on one thread: its GET blocks until the response is there and
\* its sleep until the time is up, so each step it is at is taken
LiveSpec == InitPlanned /\ [][Next]_vars /\ WF_vars(PollGet) /\ WF_vars(PollSleep)

\* a client whose user has set token_expires_at and refresh_token after
\* constructing it, facing a server whose job never completes
InitConfigured ==
    /\ now = Epoch0 + 1
    /\ \/ token = "t1" /\ auth_type = "Bearer"
       \/ token = None /\ auth_type = "Bearer"
       \/ token = "t1" /\ auth_type = None
    /\ extra_headers = ("X-Tenant" :> <<"a">>)
    /\ token_expires_at \in {NoExpiry, Epoch0, Epoch0 + 1, Epoch0 + 3}
    /\ refresh_token \in {"noop", "rotate"}
    /\ plan = [kind |-> "never", k |-> 0]
    /\ Fresh

TokenSpec == InitConfigured /\ [][Next]_vars

-----------------------------------------------------------------------------
(* Properties of poll() *)

\* the manifest a JSON body stands for
Manifest(body) ==
    CASE body = <<"output">> -> [output |-> << >>]
      [] body = <<"output", "Patient", "https://host/files/p1.ndjson">> ->
           [output |-> <<[type |-> "Patient", url |-> "https://host/files/p1.ndjson"]>>]

\* the number a delay-seconds value stands for
DelayValue(ds) == CASE ds = <<1>> -> 1 [] ds = <<1, 2, 1>> -> 121

\* poll() is running
Polling == pc \in {"get", "sleep"}

\* poll() ended, by return or by raise
PollEnded == pc \in {"done", "failed"} /\ gets >= 1

\* every response poll() has received so far was non-ok
OnlyNonOk == gets >= 1 /\ nonok_run = gets

\* C1: while every response so far is non-ok, the first three are absorbed
\* (poll() goes on to sleep and to poll again, one sleep per response) and the
\* fourth makes poll() fail with the HTTP error; two non-ok responses and then
\* a 200 make poll() return the decoded body of the 200.
C1_FourthErrorFails ==
    /\ (OnlyNonOk /\ gets <= 3) =>
          /\ Polling
          /\ error = ""
          /\ sleeps = (IF pc = "get" THEN gets ELSE gets - 1)
    /\ (OnlyNonOk /\ gets = 4) => (pc = "failed" /\ error = "HTTPError")
    /\ (gets = 3 /\ nonok_maxrun = 2 /\ response.status = 200) =>
          /\ pc = "done"
          /\ error = ""
          /\ result = <<Manifest(response.body)>>

C1_Witness == OnlyNonOk /\ gets = 4 /\ pc = "failed" /\ error = "HTTPError"

\* C2: as long as no run of consecutive non-ok responses is longer than 3,
\* poll() does not fail with the HTTP error.
C2_ConsecutiveOnly ==
    (gets >= 1 /\ nonok_maxrun <= 3) => ~(pc = "failed" /\ error = "HTTPError")

\* C3: a 200 on the first poll ends poll() after one GET and no sleep with the
\* decoded body as its value; poll() returns a value only on a 200, the value
\* being that response's decoded body, and no sleep follows that response.
C3_ReturnsOn200 ==
    /\ (gets = 1 /\ response.status = 200) =>
          /\ pc = "done"
          /\ sleeps = 0
          /\ result = <<Manifest(response.body)>>
    /\ (gets >= 1 /\ result # << >>) =>
          /\ pc = "done"
          /\ response.status = 200
          /\ result = <<Manifest(response.body)>>
          /\ sleeps = gets - 1

C3_Witness == gets = 1 /\ pc = "done" /\ sleeps = 0 /\ result # << >>

\* C4: the sleep that follows a 202 with a numeric Retry-After r lasts
\* min(r, default_polling_time), and the i-th sleep follows the i-th response.
C4_NumericRetryAfter ==
    (pc = "get" /\ gets >= 1 /\ response.status = 202
        /\ response.retry_after.kind = "delay") =>
       /\ slept = <<Min(DelayValue(response.retry_after.digits), default_polling_time)>>
       /\ sleeps = gets

C4_Witness ==
    /\ pc = "get"
    /\ gets = 2
    /\ sleeps = 2
    /\ response.status = 202
    /\ response.retry_after = Delay(<<1, 2, 1>>)
    /\ default_polling_time = 120
    /\ slept = <<120>>

\* the whole seconds from the clock reading of line 461 to the instant of the
\* HTTP-date of the response
SecondsUntil(ra) == (Strptime(ra) - now) - (IF read_us > 0 THEN 1 ELSE 0)

\* poll() has just computed its wait from an HTTP-date
WaitFromDate ==
    /\ pc = "sleep"
    /\ response.status = 202
    /\ response.retry_after.kind = "date"

\* C5: the wait computed from an HTTP-date d, before the clamp, is
\* max(0, d - now) in whole seconds.
C5_DateWait == WaitFromDate => seconds = Max(0, SecondsUntil(response.retry_after))

\* C6: every duration passed to sleep lies in 0 .. default_polling_time.
C6_SleepWithinCeiling ==
    slept # << >> => (0 <= slept[1] /\ slept[1] <= default_polling_time)

C6_Witness ==
    /\ pc = "get"
    /\ response.retry_after.kind = "date"
    /\ Strptime(response.retry_after) < now
    /\ default_polling_time = 2
    /\ slept = <<2>>

\* C9: an ok response that is neither 200 nor 202 and carries no Retry-After
\* ends poll() with the 'Invalid poll response' failure, no sleep following it.
BareOther ==
    /\ gets >= 1
    /\ response.status < 400
    /\ response.status \notin {200, 202}
    /\ response.retry_after.kind = "absent"

C9_InvalidPollResponse ==
    BareOther =>
       /\ pc = "failed"
       /\ error = "Invalid poll response"
       /\ result = << >>
       /\ sleeps = gets - 1

C9_Witness ==
    /\ BareOther
    /\ pc = "failed"
    /\ error_count = 2
    /\ seconds = 1
    /\ default_polling_time = 120

\* the server has planned a 200 or enough non-ok responses
WillEnd == plan.kind \in {"ok_at", "fail_from"}

\* C8: every GET being answered and every sleep completing, poll() ends when
\* the responses hold a 200 or enough non-ok responses to use up the
\* tolerance; against a server that answers 202 to every GET it never ends.
C8_EndsOnlyOn200OrErrors ==
    /\ (Polling /\ WillEnd) ~> PollEnded
    /\ [](plan.kind = "never" => ~PollEnded)

C8_Witness == plan = [kind |-> "ok_at", k |-> 3] /\ gets = 3 /\ pc = "done"

\* poll() takes a response in this step
Receives == gets' = gets + 1

\* C16: the sleep that follows a tolerated non-ok response lasts
\* default_polling_time, whatever the wait was before and whatever Retry-After
\* the response carries.
C16_DefaultAfterError ==
    /\ [][(Receives /\ response'.status >= 400 /\ pc' = "sleep") =>
            seconds' = default_polling_time]_vars
    /\ []((pc = "get" /\ gets >= 1 /\ response.status >= 400) =>
            (slept = <<default_polling_time>> /\ sleeps = gets))

C16_Witness ==
    /\ pc = "get"
    /\ gets = 2
    /\ response = Resp(500, Delay(<<1>>), "", <<"error">>)
    /\ default_polling_time = 120
    /\ slept = <<120>>

\* a 202 without Retry-After is the response most recently received
BareAccepted ==
    gets >= 1 /\ response.status = 202 /\ response.retry_after.kind = "absent"

\* C17: a 202 without Retry-After leaves the wait and the error counter as
\* they were: the sleep after it lasts as long as the sleep before it, or
\* default_polling_time when it is the first response.
C17_BareAcceptedKeepsWait ==
    /\ [][(Receives /\ BareAccepted') =>
            /\ pc' = "sleep"
            /\ error_count' = error_count
            /\ seconds' = seconds]_vars
    /\ [][(BareAccepted /\ sleeps' = sleeps + 1) =>
            slept' = (IF sleeps = 0 THEN <<default_polling_time>> ELSE slept)]_vars

C17_Witness ==
    /\ BareAccepted
    /\ pc = "get"
    /\ sleeps = 2
    /\ slept = <<1>>
    /\ default_polling_time = 120

\* C18: each response is handled by the first rule that fits, and by that rule
\* alone: non-ok is an error, with or without Retry-After; else 200 is the
\* success, with or without Retry-After; else a Retry-After sets the wait,
\* whatever the status; else 202 goes on with the wait unchanged; else the
\* response is invalid.
C18_PriorityOrder ==
    [][Receives =>
         LET r == response'
         IN  IF r.status >= 400
             THEN \/ /\ pc' = "sleep"
                     /\ error_count' = error_count + 1
                     /\ seconds' = default_polling_time
                     /\ error' = ""
                     /\ result' = << >>
                  \/ /\ pc' = "failed"
                     /\ error' = "HTTPError"
                     /\ error_count' = error_count
                     /\ result' = << >>
             ELSE IF r.status = 200
             THEN /\ pc' = "done"
                  /\ result' = <<Manifest(r.body)>>
                  /\ error' = ""
                  /\ error_count' = error_count
                  /\ seconds' = seconds
             ELSE IF r.retry_after.kind # "absent"
             THEN /\ pc' = "sleep"
                  /\ error' = ""
                  /\ result' = << >>
                  /\ error_count' = error_count
                  /\ r.retry_after.kind = "delay" =>
                        seconds' = DelayValue(r.retry_after.digits)
             ELSE IF r.status = 202
             THEN /\ pc' = "sleep"
                  /\ error' = ""
                  /\ result' = << >>
                  /\ error_count' = error_count
                  /\ seconds' = seconds
             ELSE /\ pc' = "failed"
                  /\ error' = "Invalid poll response"
                  /\ result' = << >>
                  /\ error_count' = error_count
                  /\ seconds' = seconds]_vars

C18_Witness ==
    /\ pc = "sleep"
    /\ response = Resp(204, Delay(<<1>>), "", << >>)
    /\ seconds = 1
    /\ default_polling_time = 120

\* C19 as stated: a non-ok response that brings the error counter to 3 makes
\* poll() fail; poll() goes on only while the counter is below 3.
C19_FailsAtThree ==
    (gets >= 1 /\ response.status >= 400) =>
       IF error_count < 3 THEN Polling ELSE pc = "failed" /\ error = "HTTPError"

\* C19 amended: a non-ok response that finds the error counter below 3
\* increments it and poll() goes on, also when that brings it to 3; a non-ok
\* response that finds the counter at 3 makes poll() fail with the HTTP error,
\* the counter staying 3.
C19_FailsAfterThree ==
    /\ [][(Receives /\ response'.status >= 400) =>
            IF error_count < 3
            THEN error_count' = error_count + 1 /\ pc' = "sleep" /\ error' = ""
            ELSE error_count' = error_count /\ pc' = "failed" /\ error' = "HTTPError"]_vars
    /\ [](error_count <= 3)
    /\ []((gets >= 1 /\ pc = "failed" /\ error = "HTTPError") => error_count = 3)

C19_Witness ==
    /\ pc = "sleep"
    /\ response.status = 500
    /\ error_count = 3
    /\ gets = 3

\* C20: GETs and sleeps alternate, a GET first: no sleep before the first GET,
\* one sleep between two GETs, no sleep after the response that ends poll().
C20_GetsAndSleepsAlternate ==
    /\ [](frame = "poll" =>
            sleeps = (IF pc = "get" THEN gets ELSE gets - 1))
    /\ [][(sleeps' # sleeps) => (pc = "sleep" /\ sleeps' = gets /\ gets' = gets)]_vars
    /\ [][(gets' # gets) => (pc = "get" /\ sleeps = gets /\ sleeps' = sleeps)]_vars

C20_Witness == frame = "poll" /\ pc = "failed" /\ gets = 5 /\ sleeps = 4

-----------------------------------------------------------------------------
(* Properties of the bulk kick-off *)

\* a kick-off was answered and poll() has issued no GET yet
KickedOff ==
    /\ frame \in {"__async_operation", "bulk", "poll"}
    /\ gets = 0
    /\ response # NoResponse

\* C7 as stated: a 202 kick-off enters poll() on the Content-Location, and any
\* other status returns the decoded body.
C7_AnyOtherStatusReturns ==
    KickedOff =>
       IF response.status = 202
       THEN Polling /\ poll_url = response.content_location
       ELSE pc = "done" /\ result = <<Manifest(response.body)>>

\* a kick-off answered with a status that is not 202
NotStarted == KickedOff /\ response.status # 202

\* C7 amended: a 202 kick-off enters poll() on the Content-Location; any other
\* ok status returns the decoded body; a non-ok status fails with the HTTP
\* error; and after a status that is not 202 no poll GET is issued.
C7_KickoffOutcome ==
    /\ [](KickedOff =>
            IF response.status = 202
            THEN Polling /\ poll_url = response.content_location /\ error_count = 0
            ELSE IF response.status < 400
            THEN pc = "done" /\ result = <<Manifest(response.body)>> /\ error = ""
            ELSE pc = "failed" /\ error = "HTTPError" /\ result = << >>)
    /\ [](gets >= 1 => last_get = poll_url)
    /\ [][NotStarted => (gets' = 0 /\ NotStarted')]_vars

C7_Witness == NotStarted /\ response.status = 500 /\ pc = "failed"

-----------------------------------------------------------------------------
(* Properties of the token state *)

\* the token had expired when the most recent headers were built
WasExpired == hdr.expires_before # NoExpiry /\ hdr.at > hdr.expires_before

\* C10: headers built after the expiry call the refresh hook first and carry
\* the token the hook left; headers built at or before the expiry do not call
\* it.
C10_RefreshBeforeUse ==
    hdr.built =>
       /\ hdr.refreshed = WasExpired
       /\ (WasExpired /\ refresh_token = "rotate") =>
             token_expires_at = hdr.at + TokenTTL
       /\ ~WasExpired => token_expires_at = hdr.expires_before
       /\ ("Authorization" \in DOMAIN hdr.headers) = (token # None /\ auth_type # None)
       /\ "Authorization" \in DOMAIN hdr.headers =>
             hdr.headers["Authorization"] = <<auth_type, token>>

C10_Witness ==
    /\ hdr.built
    /\ WasExpired
    /\ refresh_token = "rotate"
    /\ gets >= 2
    /\ token = "t1"
    /\ hdr.headers["Authorization"] = <<"Bearer", "t1">>

-----------------------------------------------------------------------------
(* Properties of the synchronous methods *)

\* C11: in oauth(), a response of the token endpoint with a status outside
\* 200..299 makes the call fail with an error and return nothing; only a
\* response with a status in 200..299 gives a returned result.
C11_TokenFailureRaises ==
    (frame = "oauth" /\ Len(sent) = 2) =>
       IF response.status \in 200..299
       THEN pc = "done" /\ result # << >> /\ error = ""
       ELSE pc = "failed" /\ result = << >> /\ error # ""

\* C12: __operation returns the decoded body of an ok response that has one,
\* an empty result for an ok response that has none, and for a non-ok
\* response returns nothing and raises the HTTP error, the body having been
\* logged when there is one.
C12_OperationOutcome ==
    frame = "__operation" =>
       /\ pc \in {"done", "failed"}
       /\ Len(sent) = 1
       /\ (response.status < 400 /\ response.body # << >>) =>
             /\ pc = "done"
             /\ result = <<Manifest(response.body)>>
             /\ error = ""
             /\ error_log = << >>
       /\ (response.status < 400 /\ response.body = << >>) =>
             /\ pc = "done"
             /\ result = << << >> >>
             /\ error = ""
             /\ error_log = << >>
       /\ response.status >= 400 =>
             /\ pc = "failed"
             /\ result = << >>
             /\ error = "HTTPError"
             /\ error_log = (IF response.body # << >> THEN <<response.body>> ELSE << >>)

C12_Witness ==
    /\ frame = "__operation"
    /\ pc = "failed"
    /\ response.status = 500
    /\ error_log = << <<"error">> >>

\* C13: save_output() asks for the files of the manifest one at a time, in
\* the order of its entries; when every request succeeds it returns the list
\* of the file names, one per entry and in that order; when the request for an
\* entry fails it raises, returns no list and asks for no later entry.
C13_FilesInManifestOrder ==
    /\ [](frame = "save_output" =>
            LET output == arg["output"]
            IN  /\ Len(sent) <= Len(output)
                /\ \A i \in 1..Len(sent) :
                      sent[i] = [method |-> "GET", url |-> output[i].url, data |-> << >>]
                /\ pc = "fetch" =>
                      Len(sent) < Len(output) /\ result = << >> /\ error = ""
                /\ pc = "done" =>
                      /\ Len(sent) = Len(output)
                      /\ error = ""
                      /\ result = <<[i \in 1..Len(output) |->
                                       output[i].url[Len(output[i].url)]]>>
                /\ pc = "failed" =>
                      /\ response.status >= 400
                      /\ error = "HTTPError"
                      /\ result = << >>
                /\ (Len(sent) >= 1 /\ response.status >= 400) => pc = "failed")
    /\ [][(frame = "save_output" /\ pc = "failed") => sent' = sent]_vars
    /\ [][(frame = "save_output" /\ sent' # sent) =>
            (Len(sent') = Len(sent) + 1 /\ (sent # << >> => response.status < 400))]_vars

C13_Witness ==
    /\ frame = "save_output"
    /\ pc = "done"
    /\ Len(sent) = 2
    /\ result = << <<"p1.ndjson", "o1.ndjson">> >>

\* the positions of the next links of a link list
NextLinks(link) == {i \in DOMAIN link : link[i].relation = "next"}

\* what __operation returns of the response received
Decoded ==
    IF response.body # << >> THEN <<Manifest(response.body)>> ELSE << << >> >>

\* C14: search_next() sends nothing and returns None when the Bundle has no
\* next link or more than one; when it has exactly one, it sends one GET, to
\* the URL of that link as it stands, and returns the decoded response.
C14_FollowsTheOnlyNext ==
    (frame = "search_next" /\ arg \in SearchResults) =>
       IF /\ DOMAIN arg = {"resourceType", "link"}
          /\ arg["resourceType"] = "Bundle"
          /\ Cardinality(NextLinks(arg["link"])) = 1
       THEN LET i == CHOOSE k \in NextLinks(arg["link"]) : TRUE
            IN  /\ sent = <<[method |-> "GET", url |-> arg["link"][i].url,
                              data |-> << >>]>>
                /\ IF response.status < 400
                   THEN pc = "done" /\ result = Decoded
                   ELSE pc = "failed" /\ result = << >>
       ELSE /\ sent = << >>
            /\ response = NoResponse
            /\ pc = "done"
            /\ result = << >>

C14_Witness ==
    /\ frame = "search_next"
    /\ pc = "done"
    /\ DOMAIN arg = {"resourceType", "link"}
    /\ Len(arg["link"]) = 2
    /\ arg["link"][2].relation = "next"
    /\ Len(sent) = 1
    /\ sent[1].url = arg["link"][2].url
    /\ result # << >>

\* C15: validate() called with a non-empty profile appends the entry
\* {name: 'profile', valueCode: profile} to the parameter list, after the
\* resource entry and the mode entry if there is one, and then posts the
\* Parameters resource to $validate.
C15_ProfileIsPosted ==
    (frame = "validate" /\ arg.profile # None /\ arg.profile # "") =>
       /\ error # "TypeError"
       /\ Len(sent) = 1
       /\ sent[1].method = "POST"
       /\ sent[1].data[1].parameter =
             <<[name |-> "resource", resource |-> arg.resource]>>
             \o (IF arg.mode # None /\ arg.mode # ""
                 THEN <<[name |-> "mode", valueCode |-> arg.mode]>> ELSE << >>)
             \o <<[name |-> "profile", valueCode |-> arg.profile]>>

====
